---- MODULE Spec2Model ----
(***************************************************************************)
(* A model of statix's lint library (lib/src/lib.rs) and of the            *)
(* "manual inherit from" rule (lib/src/lints/manual_inherit_from.rs).      *)
(*                                                                         *)
(* Text is a sequence of bytes; every byte is a one-character string,      *)
(* except the two bytes of the UTF-8 encoding of a two-byte character,     *)
(* written "C3" (lead byte) and "A9" (continuation byte).                  *)
(*                                                                         *)
(* Four specifications share the variables:                                *)
(*   SpecReport    the Report builder, the range folds, from_parse_err     *)
(*   SpecApply     Report::apply over a source buffer                      *)
(*   SpecLint      the rule, the fix and the re-lint of one attribute set  *)
(*   SpecRegistry  the lazily initialised LINTS registry under threads     *)
(***************************************************************************)
EXTENDS Integers, Sequences, FiniteSets, TLC

VARIABLES
    report,     \* SpecReport: Option<Report> under construction
    calls,      \* SpecReport: history of the builder calls made on `report`
    newArgs,    \* SpecReport: the arguments Report::new was called with
    perr,       \* SpecReport: Option<ParseError> given to from_parse_err
    orig,       \* SpecApply/SpecLint: the source text before any fix
    src,        \* SpecApply/SpecLint: the source buffer (&mut String)
    reports,    \* SpecApply/SpecLint: the reports at hand, in traversal order
    applied,    \* SpecApply/SpecLint: indices of `reports` applied so far, in order
    input,      \* SpecLint: the key path and value chain the source is written from
    phase,      \* SpecLint: "parsed" | "linted" | "fixed" | "relinted"
    relint,     \* SpecLint: reports of the traversal of the rewritten text
    panicked,   \* TRUE once an operation ended in a panic
    once,       \* SpecRegistry: state of the lazy cell's Once
    building,   \* SpecRegistry: each thread's local vector `v` of the initializer
    nextLint,   \* SpecRegistry: each thread's position in the lints! list
    LINTS,      \* SpecRegistry: Option<Vec<&Lint>> stored in the lazy cell
    pc,         \* SpecRegistry: each thread's position
    seen,       \* SpecRegistry: what each thread read from LINTS
    initRuns    \* SpecRegistry: how many times the initializer body started

vars == <<report, calls, newArgs, perr, orig, src, reports, applied, input, phase,
          relint, panicked, once, building, nextLint, LINTS, pc, seen, initRuns>>

reportVars   == <<report, calls, newArgs, perr>>
applyVars    == <<orig, src, reports, applied>>
lintVars     == <<input, phase, relint>>
registryVars == <<once, building, nextLint, LINTS, pc, seen, initRuns>>

(***************************************************************************)
(* Bounds                                                                  *)
(***************************************************************************)
MaxPos == 2      \* SpecReport: largest offset of a TextRange
MaxCalls == 2    \* SpecReport: builder calls made on one report
MaxLen == 3      \* SpecApply: length in bytes of the source text
MaxDiags == 2    \* SpecApply: diagnostics of the two reports together
NThreads == 3    \* SpecRegistry: threads that access LINTS
NLints == 2      \* SpecRegistry: modules listed in the lints! invocation
MaxKeyPath == 2  \* SpecLint: identifiers of the key's attribute path
MaxSelect == 3   \* SpecLint: identifiers of the value's selection chain

(***************************************************************************)
(* Option<T>, TextRange                                                    *)
(***************************************************************************)
None == <<>>
Some(x) == <<x>>
IsSome(o) == Len(o) = 1
Unwrap(o) == o[1]

Min(a, b) == IF a <= b THEN a ELSE b
Max(a, b) == IF a >= b THEN a ELSE b

TextRange(s, e) == [start |-> s, end |-> e]
TextRange_empty(o) == [start |-> o, end |-> o]
RangesUpTo(n) == {r \in [start : 0..n, end : 0..n] : r.start <= r.end}

\* TextRange::cover: the minimal range containing both
cover(a, b) == TextRange(Min(a.start, b.start), Max(a.end, b.end))

\* Iterator::reduce(|acc, next| f(acc, next)): None on an empty iterator
RECURSIVE FoldCover(_, _)
FoldCover(acc, rest) ==
    IF rest = <<>> THEN acc ELSE FoldCover(cover(acc, Head(rest)), Tail(rest))
reduce_cover(rs) == IF rs = <<>> THEN None ELSE Some(FoldCover(Head(rs), Tail(rs)))

(***************************************************************************)
(* Strings                                                                 *)
(***************************************************************************)
RECURSIVE Concat(_)
Concat(ss) == IF ss = <<>> THEN <<>> ELSE Head(ss) \o Concat(Tail(ss))

\* SyntaxElement::to_string: the text of the element's tokens, in order.
\* A syntax element is modelled by the sequence of its tokens.
to_string(fix) == Concat(fix)

LowerCase == <<"a","b","c","d","e","f","g","h","i","j","k","l","m",
               "n","o","p","q","r","s","t","u","v","w","x","y","z">>
UpperCase == <<"A","B","C","D","E","F","G","H","I","J","K","L","M",
               "N","O","P","Q","R","S","T","U","V","W","X","Y","Z">>
\* u8::make_ascii_uppercase on one byte
make_ascii_uppercase(b) ==
    IF \E i \in 1..26 : LowerCase[i] = b
    THEN UpperCase[CHOOSE i \in 1..26 : LowerCase[i] = b]
    ELSE b

IsContinuation(b) == b = "A9"
\* str::is_char_boundary
is_char_boundary(s, i) ==
    \/ i = 0
    \/ i = Len(s)
    \/ (i < Len(s) /\ ~IsContinuation(s[i + 1]))

(***************************************************************************)
(* Severity, Diagnostic, Suggestion, Report                                *)
(***************************************************************************)
Severities == {"Warn", "Error", "Hint"}
Severity_default == "Warn"

Suggestion_new(at, fix) == [at |-> at, fix |-> fix]

Diagnostic_new(at, message) ==
    [at |-> at, message |-> message, suggestion |-> None]
Diagnostic_suggest(at, message, suggestion) ==
    [at |-> at, message |-> message, suggestion |-> Some(suggestion)]

Report_new(note, code) ==
    [note |-> note, code |-> code, severity |-> Severity_default,
     diagnostics |-> <<>>]
Report_diagnostic(self, at, message) ==
    [self EXCEPT !.diagnostics = Append(@, Diagnostic_new(at, message))]
\* mutant: suggest pushing a diagnostic that lost its suggestion
Report_suggest_mut(self, at, message, suggestion) ==
    [self EXCEPT !.diagnostics = Append(@, Diagnostic_new(at, message))]
Report_suggest(self, at, message, suggestion) ==
    [self EXCEPT !.diagnostics =
        Append(@, Diagnostic_suggest(at, message, suggestion))]
Report_severity(self, severity) == [self EXCEPT !.severity = severity]

\* flat_map(|d| Some(d.suggestion.as_ref()?.at)): the suggestions' ranges
RECURSIVE SuggestionRanges(_)
SuggestionRanges(ds) ==
    IF ds = <<>> THEN <<>>
    ELSE (IF IsSome(Head(ds).suggestion)
          THEN <<Unwrap(Head(ds).suggestion).at>> ELSE <<>>)
         \o SuggestionRanges(Tail(ds))
\* flat_map(|d| Some(d.at)): the diagnostics' ranges
DiagnosticRanges(ds) == [i \in 1..Len(ds) |-> ds[i].at]

\* mutants: each fold reading the other collection of ranges
total_suggestion_range_mut(self) == reduce_cover(DiagnosticRanges(self.diagnostics))
total_diagnostic_range_mut(self) == reduce_cover(SuggestionRanges(self.diagnostics))

total_suggestion_range(self) == reduce_cover(SuggestionRanges(self.diagnostics))
total_diagnostic_range(self) == reduce_cover(DiagnosticRanges(self.diagnostics))

(***************************************************************************)
(* Applying fixes                                                          *)
(***************************************************************************)
\* String::replace_range(start..end, with) panics when the range is
\* decreasing, ends beyond the string, or an end of it is inside a character
\* mutant: the bound check off by one
replace_range_panics_mut(s, start, end) ==
    \/ start > end
    \/ end >= Len(s)
    \/ ~is_char_boundary(s, start)
    \/ ~is_char_boundary(s, end)
replace_range_panics(s, start, end) ==
    \/ start > end
    \/ end > Len(s)
    \/ ~is_char_boundary(s, start)
    \/ ~is_char_boundary(s, end)
\* mutant: the replacement inserted at start, the old span kept
replace_range_mut(s, start, end, with) ==
    SubSeq(s, 1, start) \o with \o SubSeq(s, start + 1, Len(s))
replace_range(s, start, end, with) ==
    SubSeq(s, 1, start) \o with \o SubSeq(s, end + 1, Len(s))

\* The buffer and whether the operation panicked; a panic leaves the buffer
\* as the edits made before it left it.
Buffer(text, p) == [text |-> text, panicked |-> p]

Suggestion_apply(self, buf) ==
    LET start == self.at.start
        end   == self.at.end
    IN IF replace_range_panics(buf.text, start, end)
       THEN Buffer(buf.text, TRUE)
       ELSE Buffer(replace_range(buf.text, start, end, to_string(self.fix)), FALSE)

Diagnostic_apply(self, buf) ==
    IF IsSome(self.suggestion)
    THEN Suggestion_apply(Unwrap(self.suggestion), buf)
    ELSE buf

RECURSIVE ApplyEach(_, _)
ApplyEach(ds, buf) ==
    IF ds = <<>> \/ buf.panicked THEN buf
    ELSE ApplyEach(Tail(ds), Diagnostic_apply(Head(ds), buf))
Report_apply(self, buf) == ApplyEach(self.diagnostics, buf)

(***************************************************************************)
(* Report::from_parse_err                                                  *)
(***************************************************************************)
\* rnix's ParseError: the kinds the match names, with and without a range,
\* and kinds it does not name (the enum is non-exhaustive)
RangedKinds == {"Unexpected", "UnexpectedExtra", "UnexpectedWanted",
                "UnexpectedDoubleBind"}
EOFKinds == {"UnexpectedEOF", "UnexpectedEOFWanted"}
OtherKinds == {"DuplicatedArgs", "RecursionLimitExceeded"}
ParseErrors ==
    {[kind |-> k, at |-> Some(r)] :
        k \in RangedKinds \cup (OtherKinds \ {"RecursionLimitExceeded"}),
        r \in RangesUpTo(MaxPos)}
    \cup {[kind |-> k, at |-> None] :
            k \in EOFKinds \cup (OtherKinds \ {"DuplicatedArgs"})}

Chars(r) == <<ToString(r.start), ".", ".", ToString(r.end)>>
\* err.to_string(): the Display text of the error
ParseError_to_string(err) ==
    CASE err.kind = "Unexpected" ->
            <<"e","r","r","o","r"," ","n","o","d","e"," ","a","t"," ">>
            \o Chars(Unwrap(err.at))
      [] err.kind = "UnexpectedExtra" ->
            <<"u","n","e","x","p","e","c","t","e","d"," ","t","o","k","e","n",
              " ","a","t"," ">> \o Chars(Unwrap(err.at))
      [] err.kind = "UnexpectedWanted" ->
            <<"u","n","e","x","p","e","c","t","e","d"," ","T"," ","a","t"," ">>
            \o Chars(Unwrap(err.at)) \o <<","," ","w","a","n","t","e","d">>
      [] err.kind = "UnexpectedDoubleBind" ->
            <<"u","n","e","x","p","e","c","t","e","d"," ","d","o","u","b","l","e",
              " ","b","i","n","d"," ","a","t"," ">> \o Chars(Unwrap(err.at))
      [] err.kind = "UnexpectedEOF" ->
            <<"u","n","e","x","p","e","c","t","e","d"," ","e","n","d">>
      [] err.kind = "UnexpectedEOFWanted" ->
            <<"u","n","e","x","p","e","c","t","e","d"," ","e","n","d",","," ",
              "w","a","n","t","e","d">>
      [] err.kind = "DuplicatedArgs" ->
            <<"a","r","g","u","m","e","n","t"," ","d","u","p","l","i","c","a",
              "t","e","d"," ">> \o Chars(Unwrap(err.at))
      [] OTHER ->
            <<"r","e","c","u","r","s","i","o","n"," ","l","i","m","i","t">>

\* mutant: the double-bind arm falling into the arm of the errors without range
ParseErrRange_mut(err) ==
    IF err.kind \in RangedKinds \ {"UnexpectedDoubleBind"} THEN Some(Unwrap(err.at))
    ELSE IF err.kind \in EOFKinds \cup {"UnexpectedDoubleBind"}
         THEN Some(TextRange_empty(0))
    ELSE None
\* The match on the error: Some(range), or None for the panic! arm
ParseErrRange(err) ==
    IF err.kind \in RangedKinds THEN Some(Unwrap(err.at))
    ELSE IF err.kind \in EOFKinds THEN Some(TextRange_empty(0))
    ELSE None

\* message.as_mut_str().get_mut(0..1).unwrap().make_ascii_uppercase():
\* None (the unwrap panics) when byte 1 is not a whole character
UppercaseFirst(message) ==
    IF Len(message) < 1 \/ ~is_char_boundary(message, 1) THEN None
    ELSE Some(<<make_ascii_uppercase(message[1])>> \o Tail(message))

SyntaxErrorNote == <<"S","y","n","t","a","x"," ","e","r","r","o","r">>

\* Some(report), or None when from_parse_err panics
Report_from_parse_err(err) ==
    LET at == ParseErrRange(err)
        message == UppercaseFirst(ParseError_to_string(err))
    IN IF ~IsSome(at) \/ ~IsSome(message) THEN None
       ELSE Some(Report_severity(
                    Report_diagnostic(Report_new(SyntaxErrorNote, 0),
                                      Unwrap(at), Unwrap(message)),
                    "Error"))

(***************************************************************************)
(* SpecReport: building a Report, Report::from_parse_err                   *)
(***************************************************************************)
Notes == {<<"n","1">>, <<"n","2">>}
Codes == {1, 2}
Messages == {<<"m">>}
\* fixes as syntax elements: sequences of tokens
EmptyFix == <<>>
FixX == << <<"X">> >>
FixYZ == << <<"Y">>, <<"Z">> >>
BuildSuggestions == {Suggestion_new(r, FixX) : r \in RangesUpTo(MaxPos)}

RegistryIdle ==
    /\ once = "idle" /\ building = <<>> /\ nextLint = <<>> /\ LINTS = None
    /\ pc = <<>> /\ seen = <<>> /\ initRuns = 0
ApplyIdle ==
    /\ orig = <<>> /\ src = <<>> /\ reports = <<>> /\ applied = <<>>
LintIdle == input = <<>> /\ phase = "idle" /\ relint = <<>>
ReportIdle == report = None /\ calls = <<>> /\ newArgs = None /\ perr = None

InitReport ==
    /\ ReportIdle /\ ApplyIdle /\ LintIdle /\ RegistryIdle
    /\ panicked = FALSE

ReportNew(note, code) ==
    /\ report = None /\ perr = None
    /\ report' = Some(Report_new(note, code))
    /\ newArgs' = Some([note |-> note, code |-> code])
    /\ UNCHANGED <<calls, perr, panicked, applyVars, lintVars, registryVars>>

ReportDiagnostic(at, message) ==
    /\ IsSome(report) /\ perr = None /\ Len(calls) < MaxCalls
    /\ report' = Some(Report_diagnostic(Unwrap(report), at, message))
    /\ calls' = Append(calls, [op |-> "diagnostic", at |-> at,
                               message |-> message, suggestion |-> None])
    /\ UNCHANGED <<newArgs, perr, panicked, applyVars, lintVars, registryVars>>

ReportSuggest(at, message, suggestion) ==
    /\ IsSome(report) /\ perr = None /\ Len(calls) < MaxCalls
    /\ report' = Some(Report_suggest(Unwrap(report), at, message, suggestion))
    /\ calls' = Append(calls, [op |-> "suggest", at |-> at,
                               message |-> message,
                               suggestion |-> Some(suggestion)])
    /\ UNCHANGED <<newArgs, perr, panicked, applyVars, lintVars, registryVars>>

ReportSeverity(severity) ==
    /\ IsSome(report) /\ perr = None /\ Len(calls) < MaxCalls
    /\ report' = Some(Report_severity(Unwrap(report), severity))
    /\ calls' = Append(calls, [op |-> "severity", severity |-> severity])
    /\ UNCHANGED <<newArgs, perr, panicked, applyVars, lintVars, registryVars>>

FromParseErr(err) ==
    /\ report = None /\ perr = None
    /\ perr' = Some(err)
    /\ report' = Report_from_parse_err(err)
    /\ panicked' = ~IsSome(Report_from_parse_err(err))
    /\ UNCHANGED <<calls, newArgs, applyVars, lintVars, registryVars>>

NextReport ==
    \/ \E note \in Notes, code \in Codes : ReportNew(note, code)
    \/ \E at \in RangesUpTo(MaxPos), m \in Messages : ReportDiagnostic(at, m)
    \/ \E s \in BuildSuggestions, m \in Messages :
        \E at \in {s.at, TextRange(0, MaxPos)} : ReportSuggest(at, m, s)
    \/ \E sev \in Severities : ReportSeverity(sev)
    \/ \E err \in ParseErrors : FromParseErr(err)

SpecReport == InitReport /\ [][NextReport]_vars

(***************************************************************************)
(* Claims checked under SpecReport                                         *)
(***************************************************************************)
\* r is the minimal range containing every range of the non-empty sequence rs
IsMinimalCover(r, rs) ==
    /\ \A i \in 1..Len(rs) : r.start <= rs[i].start /\ rs[i].end <= r.end
    /\ \E i \in 1..Len(rs) : r.start = rs[i].start
    /\ \E i \in 1..Len(rs) : r.end = rs[i].end

SuggestionsOf(ds) ==
    LET idx == {i \in 1..Len(ds) : IsSome(ds[i].suggestion)}
    IN {Unwrap(ds[i].suggestion) : i \in idx}

\* C2: total_diagnostic_range is the minimal range containing the `at` of
\* every diagnostic, and is None exactly when the report has no diagnostic.
C2_TotalDiagnosticRange ==
    IsSome(report) =>
        LET ds == Unwrap(report).diagnostics
            t  == total_diagnostic_range(Unwrap(report))
        IN /\ (t = None) <=> (Len(ds) = 0)
           /\ IsSome(t) => IsMinimalCover(Unwrap(t), [i \in 1..Len(ds) |-> ds[i].at])

\* a report of two diagnostics whose cover is neither of their ranges
C2_Witness ==
    /\ IsSome(report)
    /\ Len(Unwrap(report).diagnostics) = 2
    /\ IsSome(total_diagnostic_range(Unwrap(report)))
    /\ \A i \in 1..2 : Unwrap(report).diagnostics[i].at
                          # Unwrap(total_diagnostic_range(Unwrap(report)))

\* C3 as stated: total_suggestion_range is the minimal range containing the
\* `at` of every suggestion, and is None exactly when the report has zero
\* diagnostics.
C3_AsStated ==
    IsSome(report) =>
        LET ds == Unwrap(report).diagnostics
            t  == total_suggestion_range(Unwrap(report))
        IN /\ (t = None) <=> (Len(ds) = 0)
           /\ IsSome(t) =>
                \A s \in SuggestionsOf(ds) :
                    Unwrap(t).start <= s.at.start /\ s.at.end <= Unwrap(t).end

\* C3 amended: total_suggestion_range is the minimal range containing the
\* `at` of every suggestion, and is None exactly when no diagnostic of the
\* report carries a suggestion.
C3_TotalSuggestionRange ==
    IsSome(report) =>
        LET ds == Unwrap(report).diagnostics
            t  == total_suggestion_range(Unwrap(report))
        IN /\ (t = None) <=> (SuggestionsOf(ds) = {})
           /\ IsSome(t) =>
                /\ \A s \in SuggestionsOf(ds) :
                      Unwrap(t).start <= s.at.start /\ s.at.end <= Unwrap(t).end
                /\ \E s \in SuggestionsOf(ds) : Unwrap(t).start = s.at.start
                /\ \E s \in SuggestionsOf(ds) : Unwrap(t).end = s.at.end

\* a report of one plain diagnostic and one suggestion whose ranges differ
C3_Witness ==
    /\ IsSome(report)
    /\ Len(Unwrap(report).diagnostics) = 2
    /\ Cardinality(SuggestionsOf(Unwrap(report).diagnostics)) = 1
    /\ \E i \in 1..2 :
          /\ Unwrap(report).diagnostics[i].suggestion = None
          /\ Unwrap(report).diagnostics[i].at
                # Unwrap(total_suggestion_range(Unwrap(report)))

\* what the history of calls says the report holds
AppendingCalls(cs) == SelectSeq(cs, LAMBDA c : c.op \in {"diagnostic", "suggest"})
SeverityCalls(cs) == SelectSeq(cs, LAMBDA c : c.op = "severity")

\* C4: Report::new(note, code) yields that note and code, severity Warn and
\* no diagnostics; after any sequence of diagnostic, suggest and severity
\* calls the diagnostics are the appended ones in call order (without a
\* suggestion for diagnostic, with its suggestion for suggest), note and code
\* are unchanged and severity is that of the last severity call, else Warn.
C4_Builder ==
    (IsSome(report) /\ IsSome(newArgs)) =>
        LET r  == Unwrap(report)
            ac == AppendingCalls(calls)
            sc == SeverityCalls(calls)
        IN /\ r.note = Unwrap(newArgs).note
           /\ r.code = Unwrap(newArgs).code
           /\ r.severity = IF sc = <<>> THEN "Warn" ELSE sc[Len(sc)].severity
           /\ Len(r.diagnostics) = Len(ac)
           /\ \A i \in 1..Len(ac) :
                /\ r.diagnostics[i].at = ac[i].at
                /\ r.diagnostics[i].message = ac[i].message
                /\ ac[i].op = "diagnostic" => r.diagnostics[i].suggestion = None
                /\ ac[i].op = "suggest" =>
                      r.diagnostics[i].suggestion = ac[i].suggestion

\* a severity call followed by a suggest call
C4_Witness ==
    /\ IsSome(report) /\ IsSome(newArgs)
    /\ Len(calls) = 2
    /\ calls[1].op = "severity" /\ calls[1].severity = "Hint"
    /\ calls[2].op = "suggest"
    /\ Unwrap(report).severity = "Hint"

\* C5: from_parse_err maps the six kinds it handles to a report with note
\* "Syntax error", severity Error and one diagnostic without suggestion, at
\* the error's range (the empty range at 0 for the two EOF kinds), whose
\* message is the rendered error with its first character uppercased; any
\* other kind panics and yields no report.
C5_FromParseErr ==
    IsSome(perr) =>
        LET err == Unwrap(perr)
            text == ParseError_to_string(err)
        IN IF err.kind \in RangedKinds \cup EOFKinds
           THEN /\ ~panicked
                /\ IsSome(report)
                /\ Unwrap(report).note = SyntaxErrorNote
                /\ Unwrap(report).severity = "Error"
                /\ Len(Unwrap(report).diagnostics) = 1
                /\ LET d == Unwrap(report).diagnostics[1]
                   IN /\ d.suggestion = None
                      /\ d.at = IF err.kind \in EOFKinds
                                THEN TextRange(0, 0) ELSE Unwrap(err.at)
                      /\ Len(d.message) = Len(text)
                      /\ \A i \in 2..Len(text) : d.message[i] = text[i]
                      /\ \E i \in 1..26 : /\ d.message[1] = UpperCase[i]
                                          /\ text[1] = LowerCase[i]
           ELSE panicked /\ report = None

\* a double-bind error away from offset 0 has been converted
C5_Witness ==
    /\ IsSome(perr) /\ IsSome(report)
    /\ Unwrap(perr).kind = "UnexpectedDoubleBind"
    /\ Unwrap(perr).at = Some(TextRange(1, 2))
    /\ Unwrap(report).diagnostics[1].at = TextRange(1, 2)

(***************************************************************************)
(* SpecApply: reports of one traversal applied to the source buffer        *)
(***************************************************************************)
Alphabet == <<"a", "b", "c", "d", "e", "f">>
AsciiText(n) == [i \in 1..n |-> Alphabet[i]]
\* the same text with its second character a two-byte one
MultiText(n) == <<"a", "C3", "A9">> \o [i \in 1..(n - 3) |-> Alphabet[i + 3]]
Texts == {AsciiText(MaxLen), MultiText(MaxLen)}

\* the ranges a parser hands out: inside the text, on character boundaries
CharRanges(text) ==
    {r \in RangesUpTo(Len(text)) :
        is_char_boundary(text, r.start) /\ is_char_boundary(text, r.end)}
ApplyFixes == {EmptyFix, FixX, FixYZ}
DiagnosticsFor(text) ==
    {Diagnostic_suggest(r, <<"m">>, Suggestion_new(r, f)) :
        r \in CharRanges(text), f \in ApplyFixes}
    \cup {Diagnostic_new(TextRange(0, Len(text)), <<"m">>)}
DiagnosticSeqs(text) ==
    UNION {[1..n -> DiagnosticsFor(text)] : n \in 0..MaxDiags}

ReportOf(ds) == [note |-> <<"n","1">>, code |-> 1, severity |-> Severity_default,
                 diagnostics |-> ds]

InitApply ==
    /\ ReportIdle /\ LintIdle /\ RegistryIdle
    /\ panicked = FALSE
    /\ orig \in Texts
    /\ src = orig
    /\ applied = <<>>
    /\ \E ds \in DiagnosticSeqs(orig), k \in 0..MaxDiags :
          /\ k <= Len(ds)
          /\ reports = <<ReportOf(SubSeq(ds, 1, k)),
                         ReportOf(SubSeq(ds, k + 1, Len(ds)))>>

\* reports[i].apply(&mut src)
ApplyReport(i) ==
    /\ ~panicked
    /\ \A j \in 1..Len(applied) : applied[j] # i
    /\ LET buf == Report_apply(reports[i], Buffer(src, FALSE))
       IN /\ src' = buf.text
          /\ panicked' = buf.panicked
    /\ applied' = Append(applied, i)
    /\ UNCHANGED <<orig, reports, reportVars, lintVars, registryVars>>

NextApply == \E i \in 1..Len(reports) : ApplyReport(i)

SpecApply == InitApply /\ [][NextApply]_vars

(***************************************************************************)
(* Claims checked under SpecApply                                          *)
(***************************************************************************)
\* the suggestions of a sequence of diagnostics, in order
RECURSIVE SuggestionSeq(_)
SuggestionSeq(ds) ==
    IF ds = <<>> THEN <<>>
    ELSE (IF IsSome(Head(ds).suggestion)
          THEN <<Unwrap(Head(ds).suggestion)>> ELSE <<>>)
         \o SuggestionSeq(Tail(ds))

\* the suggestions the reports hold, in the order `order` applies them
RECURSIVE Flattened(_)
Flattened(order) ==
    IF order = <<>> THEN <<>>
    ELSE SuggestionSeq(reports[Head(order)].diagnostics) \o Flattened(Tail(order))

\* two ranges share text, or are the same place
Overlap(a, b) == a = b \/ (a.start < b.end /\ b.start < a.end)
PairwiseDisjoint(ss) ==
    \A i, j \in 1..Len(ss) : i # j => ~Overlap(ss[i].at, ss[j].at)
InsideText(ss, text) ==
    \A i \in 1..Len(ss) :
        /\ ss[i].at.end <= Len(text)
        /\ is_char_boundary(text, ss[i].at.start)
        /\ is_char_boundary(text, ss[i].at.end)

\* the text with every span replaced by its fix, the spans taken from the
\* original text: what is left of pos, then each suggestion in offset order
Before(a, b) ==
    a.at.start < b.at.start \/ (a.at.start = b.at.start /\ a.at.end <= b.at.end)
RECURSIVE Spliced(_, _, _)
Spliced(text, sorted, pos) ==
    IF sorted = <<>> THEN SubSeq(text, pos + 1, Len(text))
    ELSE SubSeq(text, pos + 1, Head(sorted).at.start)
         \o Concat(Head(sorted).fix)
         \o Spliced(text, Tail(sorted), Head(sorted).at.end)
AllReplaced(text, ss) == Spliced(text, SortSeq(ss, Before), 0)

ChangesLength(s) == Len(Concat(s.fix)) # s.at.end - s.at.start

\* C1 as stated: Report.apply of a report whose suggestion ranges are
\* pairwise non-overlapping and inside the text leaves the text with each
\* span replaced by its fix and every other byte unchanged, for any order of
\* the diagnostics and any length of the fixes.  Stated for non-empty spans,
\* where "non-overlapping" has one reading.
C1_AsStated ==
    (Len(applied) = 1
        /\ PairwiseDisjoint(Flattened(applied))
        /\ \A i \in 1..Len(Flattened(applied)) :
              Flattened(applied)[i].at.start < Flattened(applied)[i].at.end
        /\ InsideText(Flattened(applied), orig))
    => (~panicked /\ src = AllReplaced(orig, Flattened(applied)))

\* an order of application in which a replacement that changes the length of
\* the text is made only when every range still to be applied lies before it
SafeOrder(ss) ==
    \A i, j \in 1..Len(ss) :
        (i < j /\ ChangesLength(ss[i])) => ss[j].at.end <= ss[i].at.start
\* highest offset first
DescendingOrder(ss) ==
    \A i, j \in 1..Len(ss) : i < j => ss[j].at.end <= ss[i].at.start

RECURSIVE ApplyInOrder(_, _)
ApplyInOrder(order, buf) ==
    IF order = <<>> \/ buf.panicked THEN buf
    ELSE ApplyInOrder(Tail(order), Report_apply(reports[Head(order)], buf))

\* C8: two reports whose ranges do not overlap (no two share text or are the
\* same place), applied in descending order of start offset or in any other
\* order in which no range still to be applied has been shifted (SafeOrder),
\* leave byte-identical text, and no application panics.
C8_OrderIndependent ==
    Len(applied) = 2 =>
        LET ss == Flattened(applied)
        IN (PairwiseDisjoint(ss) /\ InsideText(ss, orig) /\ SafeOrder(ss))
           => /\ ~panicked
              /\ \A o \in {<<1, 2>>, <<2, 1>>} :
                    LET os == Flattened(o)
                    IN (DescendingOrder(os) \/ SafeOrder(os))
                       => ApplyInOrder(o, Buffer(orig, FALSE)) = Buffer(src, FALSE)

\* both reports applied lowest offset first, the first fix of the length of
\* its span and the second not, the other order being the descending one
C8_Witness ==
    /\ Len(applied) = 2
    /\ Len(Flattened(applied)) = 2
    /\ PairwiseDisjoint(Flattened(applied))
    /\ SafeOrder(Flattened(applied))
    /\ ~DescendingOrder(Flattened(applied))
    /\ DescendingOrder(Flattened(<<applied[2], applied[1]>>))
    /\ Len(Flattened(<<applied[1]>>)) = 1
    /\ ChangesLength(Flattened(applied)[2])
    /\ Flattened(applied)[1].at.start < Flattened(applied)[1].at.end
    /\ src # orig
    /\ ~panicked

HasOverlap(ss) ==
    \E i, j \in 1..Len(ss) :
        i # j /\ ss[i].at.start < ss[j].at.end /\ ss[j].at.start < ss[i].at.end
IsAscii(text) == \A i \in 1..Len(text) : text[i] \notin {"C3", "A9"}

\* C9 as stated: Report.apply of suggestions of which two overlap always
\* completes, leaving some text, and never panics.
C9_AsStated ==
    (Len(applied) = 1
        /\ InsideText(Flattened(applied), orig)
        /\ HasOverlap(Flattened(applied)))
    => ~panicked

\* C9 amended: Report.apply of suggestions of which two overlap completes
\* without a panic when the text and the fixes are ASCII and no fix is
\* shorter than the span it replaces.
C9_NoPanicWhenNotShrinking ==
    Len(applied) = 1 =>
        LET ss == Flattened(applied)
        IN (InsideText(ss, orig)
                /\ HasOverlap(ss)
                /\ IsAscii(orig)
                /\ \A i \in 1..Len(ss) :
                      /\ IsAscii(Concat(ss[i].fix))
                      /\ Len(Concat(ss[i].fix)) >= ss[i].at.end - ss[i].at.start)
           => ~panicked

\* two overlapping suggestions, one reaching the end of the text, applied
\* without a panic to a text they made longer
C9_Witness ==
    /\ Len(applied) = 1
    /\ HasOverlap(Flattened(applied))
    /\ IsAscii(orig)
    /\ \A i \in 1..Len(Flattened(applied)) :
          Len(Concat(Flattened(applied)[i].fix))
              >= Flattened(applied)[i].at.end - Flattened(applied)[i].at.start
    /\ \E i \in 1..Len(Flattened(applied)) :
          Flattened(applied)[i].at.end = Len(orig)
    /\ Len(src) > Len(orig)
    /\ ~panicked

(***************************************************************************)
(* The syntax tree of an attribute set, as the parser hands it out         *)
(***************************************************************************)
IsLetter(c) == \E i \in 1..26 : LowerCase[i] = c
RECURSIVE LetterRunEnd(_, _)
LetterRunEnd(text, i) ==
    IF i < Len(text) /\ IsLetter(text[i + 1]) THEN LetterRunEnd(text, i + 1) ELSE i
RECURSIVE SpaceRunEnd(_, _)
SpaceRunEnd(text, i) ==
    IF i < Len(text) /\ text[i + 1] = " " THEN SpaceRunEnd(text, i + 1) ELSE i

KwInherit == <<"i","n","h","e","r","i","t">>
PunctKind(c) ==
    CASE c = "{" -> "TOKEN_CURLY_B_OPEN"
      [] c = "}" -> "TOKEN_CURLY_B_CLOSE"
      [] c = "=" -> "TOKEN_ASSIGN"
      [] c = ";" -> "TOKEN_SEMICOLON"
      [] c = "." -> "TOKEN_DOT"
      [] c = "(" -> "TOKEN_PAREN_OPEN"
      [] c = ")" -> "TOKEN_PAREN_CLOSE"
      [] OTHER -> "TOKEN_ERROR"

\* the tokens of the text from offset i on, each with its byte range
RECURSIVE Tokenize(_, _)
Tokenize(text, i) ==
    IF i >= Len(text) THEN <<>>
    ELSE LET c == text[i + 1]
             e == IF IsLetter(c) THEN LetterRunEnd(text, i)
                  ELSE IF c = " " THEN SpaceRunEnd(text, i)
                  ELSE i + 1
             word == SubSeq(text, i + 1, e)
             kind == IF IsLetter(c)
                     THEN (IF word = KwInherit THEN "TOKEN_INHERIT" ELSE "TOKEN_IDENT")
                     ELSE IF c = " " THEN "TOKEN_WHITESPACE"
                     ELSE PunctKind(c)
         IN <<[kind |-> kind, text |-> word, start |-> i, end |-> e]>>
            \o Tokenize(text, e)

KindAt(T, i) == IF i >= 1 /\ i <= Len(T) THEN T[i].kind ELSE "EOF"

\* ident (. ident)* from token i: the index after the longest such chain
RECURSIVE ChainEnd(_, _)
ChainEnd(T, i) ==
    IF KindAt(T, i + 1) = "TOKEN_DOT" /\ KindAt(T, i + 2) = "TOKEN_IDENT"
    THEN ChainEnd(T, i + 2) ELSE i + 1

\* the index of the first ";" at or after token i, or of the last token
RECURSIVE NextSemicolon(_, _)
NextSemicolon(T, i) ==
    IF i >= Len(T) \/ KindAt(T, i) = "TOKEN_SEMICOLON" THEN i
    ELSE NextSemicolon(T, i + 1)

\* an expression node: an identifier, or a selection set.index
ExprNode(toks) ==
    IF Len(toks) = 1
    THEN [kind |-> "NODE_IDENT", tokens |-> toks]
    ELSE [kind |-> "NODE_SELECT", tokens |-> toks]

\* the children of the attribute set from token i on: key/value and
\* inherit nodes, each with the range from its first token to its ";"
RECURSIVE ParseEntries(_, _)
ParseEntries(T, i) ==
    IF i > Len(T) \/ KindAt(T, i) = "TOKEN_CURLY_B_CLOSE" THEN <<>>
    ELSE IF KindAt(T, i) = "TOKEN_IDENT"
            /\ KindAt(T, ChainEnd(T, i)) = "TOKEN_ASSIGN"
            /\ KindAt(T, ChainEnd(T, i) + 1) = "TOKEN_IDENT"
            /\ KindAt(T, ChainEnd(T, ChainEnd(T, i) + 1)) = "TOKEN_SEMICOLON"
    THEN LET k == ChainEnd(T, i)
             v == ChainEnd(T, k + 1)
         IN <<[kind  |-> "NODE_KEY_VALUE",
               range |-> TextRange(T[i].start, T[v].end),
               key   |-> SelectSeq(SubSeq(T, i, k - 1),
                                   LAMBDA t : t.kind = "TOKEN_IDENT"),
               value |-> Some(ExprNode(SubSeq(T, k + 1, v - 1)))]>>
            \o ParseEntries(T, v + 1)
    ELSE LET j == NextSemicolon(T, i)
         IN <<[kind  |-> IF KindAt(T, i) = "TOKEN_INHERIT"
                         THEN "NODE_INHERIT" ELSE "NODE_ERROR",
               range |-> TextRange(T[i].start, T[j].end),
               key   |-> <<>>,
               value |-> None]>>
            \o ParseEntries(T, j + 1)

\* rnix::parse: the nodes below the root attribute set, in document order
Parse(text) ==
    LET T == SelectSeq(Tokenize(text, 0), LAMBDA t : t.kind # "TOKEN_WHITESPACE")
    IN IF KindAt(T, 1) = "TOKEN_CURLY_B_OPEN" THEN ParseEntries(T, 2) ELSE <<>>

(***************************************************************************)
(* lints/manual_inherit_from.rs                                            *)
(***************************************************************************)
ManualInheritNote ==
    <<"A","s","s","i","g","n","m","e","n","t"," ","i","n","s","t","e","a",
      "d"," ","o","f"," ","i","n","h","e","r","i","t"," ","f","r","o","m">>
\* (the two backquotes of the message are written as quotes)
ManualInheritMessage ==
    <<"T","h","i","s"," ","a","s","s","i","g","n","m","e","n","t"," ","i",
      "s"," ","b","e","t","t","e","r"," ","w","r","i","t","t","e","n"," ",
      "w","i","t","h"," ","'","i","n","h","e","r","i","t","'">>
ManualInheritCode == 4

\* Self::report(), derived by the lint macro: Report::new(note, code)
ManualInherit_report == Report_new(ManualInheritNote, ManualInheritCode)

\* make::inherit_from_stmt(set, &[key]): the node `inherit (set) key;`
inherit_from_stmt(set, key) ==
    <<KwInherit, <<" ">>, <<"(">>>> \o set \o <<<<")">>, <<" ">>, key, <<";">>>>

\* KeyValue::cast
KeyValue_cast(node) == node.kind = "NODE_KEY_VALUE"
\* mutant: an identifier taken for a selection
Select_cast_mut(value) == value.kind \in {"NODE_SELECT", "NODE_IDENT"}
\* Select::cast
Select_cast(value) == value.kind = "NODE_SELECT"
\* Select::set, Select::index: what is left and right of the last dot
Select_set(value) ==
    [i \in 1..(Len(value.tokens) - 2) |-> value.tokens[i].text]
Select_index(value) == value.tokens[Len(value.tokens)]
\* mutant: the report placed at the value instead of the node
ReportAt_mut(node) ==
    TextRange(Unwrap(node.value).tokens[1].start,
              Unwrap(node.value).tokens[Len(Unwrap(node.value).tokens)].end)
\* node.text_range()
ReportAt(node) == node.range

\* ManualInherit::validate
ManualInherit_validate(node) ==
    IF ~KeyValue_cast(node) THEN None
    ELSE IF Len(node.key) # 1 THEN None
    ELSE IF node.key[1].kind # "TOKEN_IDENT" THEN None
    ELSE IF ~IsSome(node.value) THEN None
    ELSE IF ~Select_cast(Unwrap(node.value)) THEN None
    ELSE IF Select_index(Unwrap(node.value)).kind # "TOKEN_IDENT" THEN None
    ELSE IF node.key[1].text # Select_index(Unwrap(node.value)).text THEN None
    ELSE LET at == ReportAt(node)
             replacement == inherit_from_stmt(Select_set(Unwrap(node.value)),
                                              node.key[1].text)
         IN Some(Report_suggest(ManualInherit_report, at, ManualInheritMessage,
                                Suggestion_new(at, replacement)))

\* the traversal: the rule on every node of its kind, the reports collected
RECURSIVE Collect(_)
Collect(nodes) ==
    IF nodes = <<>> THEN <<>>
    ELSE (IF Head(nodes).kind = "NODE_KEY_VALUE"
          THEN ManualInherit_validate(Head(nodes)) ELSE None)
         \o Collect(Tail(nodes))
Traverse(text) == Collect(Parse(text))

(***************************************************************************)
(* SpecLint: one attribute set linted, fixed and linted again              *)
(***************************************************************************)
Idents == {<<"a">>, <<"b">>, <<"x">>, <<"a", "b">>}
Paths(n) == UNION {[1..m -> Idents] : m \in 1..n}
RECURSIVE Dotted(_)
Dotted(path) ==
    IF Len(path) = 1 THEN path[1] ELSE path[1] \o <<".">> \o Dotted(Tail(path))
\* the text `{ key = value; }`
MakeSource(key, value) ==
    <<"{", " ">> \o Dotted(key) \o <<" ", "=", " ">> \o Dotted(value)
    \o <<";", " ", "}">>

InitLint ==
    /\ ReportIdle /\ RegistryIdle
    /\ panicked = FALSE
    /\ \E key \in Paths(MaxKeyPath), value \in Paths(MaxSelect) :
          /\ input = <<key, value>>
          /\ orig = MakeSource(key, value)
    /\ src = orig
    /\ reports = <<>>
    /\ applied = <<>>
    /\ relint = <<>>
    /\ phase = "parsed"

\* the traversal of the parsed source
Lint ==
    /\ phase = "parsed"
    /\ reports' = Traverse(src)
    /\ phase' = "linted"
    /\ UNCHANGED <<orig, src, applied, input, relint, panicked, reportVars,
                   registryVars>>

\* reports[i].apply(&mut src)
Fix(i) ==
    /\ phase = "linted"
    /\ LET buf == Report_apply(reports[i], Buffer(src, FALSE))
       IN /\ src' = buf.text
          /\ panicked' = buf.panicked
    /\ applied' = Append(applied, i)
    /\ phase' = "fixed"
    /\ UNCHANGED <<orig, reports, input, relint, reportVars, registryVars>>

\* the traversal of the rewritten source, parsed afresh
Relint ==
    /\ phase = "fixed" /\ ~panicked
    /\ relint' = Traverse(src)
    /\ phase' = "relinted"
    /\ UNCHANGED <<orig, src, reports, applied, input, panicked, reportVars,
                   registryVars>>

NextLint ==
    \/ Lint
    \/ \E i \in 1..Len(reports) : Fix(i)
    \/ Relint

SpecLint == InitLint /\ [][NextLint]_vars

(***************************************************************************)
(* Claims checked under SpecLint                                           *)
(***************************************************************************)
\* the range of the key/value node of MakeSource(key, value): what lies
\* between the leading `{ ` and the trailing ` }`
NodeRangeOf(text) == TextRange(2, Len(text) - 2)
InheritFromText(set, key) ==
    KwInherit \o <<" ", "(">> \o Dotted(set) \o <<")", " ">> \o key \o <<";">>

\* C6: on `K = S.K;` the rule returns one report (code 4, note "Assignment
\* instead of inherit from") of one diagnostic whose range and suggestion
\* range are the node's and whose fix renders as `inherit (S) K;`; applying
\* it replaces the node, and the rule finds nothing in the rewritten text.
C6_ManualInheritFrom ==
    LET key == input[1]
        value == input[2]
        k == key[1]
        set == SubSeq(value, 1, Len(value) - 1)
    IN  (Len(key) = 1 /\ Len(value) >= 2 /\ value[Len(value)] = k
            /\ orig = MakeSource(<<k>>, set \o <<k>>)) =>
            /\ phase \in {"linted", "fixed", "relinted"} =>
                /\ Len(reports) = 1
                /\ reports[1].code = 4
                /\ reports[1].note = ManualInheritNote
                /\ Len(reports[1].diagnostics) = 1
                /\ reports[1].diagnostics[1].at = NodeRangeOf(orig)
                /\ IsSome(reports[1].diagnostics[1].suggestion)
                /\ Unwrap(reports[1].diagnostics[1].suggestion).at = NodeRangeOf(orig)
                /\ to_string(Unwrap(reports[1].diagnostics[1].suggestion).fix)
                      = InheritFromText(set, k)
            /\ phase \in {"fixed", "relinted"} =>
                /\ ~panicked
                /\ src = <<"{", " ">> \o InheritFromText(set, k) \o <<" ", "}">>
            /\ phase = "relinted" => relint = <<>>

\* `{ a = b.a; }` fixed to `{ inherit (b) a; }` and linted again
C6_Witness ==
    /\ orig = <<"{"," ","a"," ","="," ","b",".","a",";"," ","}">>
    /\ src = <<"{"," ","i","n","h","e","r","i","t"," ","(","b",")"," ","a",";",
               " ","}">>
    /\ phase = "relinted"
    /\ Len(reports) = 1
    /\ relint = <<>>

\* C7 as stated: `{ x = x; }` triggers the rule, whose fix is `inherit x;`;
\* applying it yields `{ inherit x; }` and the rule finds nothing there.
C7_AsStated ==
    orig = <<"{"," ","x"," ","="," ","x",";"," ","}">> =>
        /\ phase \in {"linted", "fixed", "relinted"} =>
            /\ Len(reports) = 1
            /\ Len(reports[1].diagnostics) = 1
            /\ IsSome(reports[1].diagnostics[1].suggestion)
            /\ to_string(Unwrap(reports[1].diagnostics[1].suggestion).fix)
                  = KwInherit \o <<" ", "x", ";">>
        /\ phase \in {"fixed", "relinted"} =>
            src = <<"{", " ">> \o KwInherit \o <<" ", "x", ";", " ", "}">>
        /\ phase = "relinted" => relint = <<>>

\* C7 amended: a key/value pair whose value is a bare identifier (`x = x;`
\* included) does not trigger the rule, so nothing is applied and the text
\* stays; and whenever the rule's fix has been applied, the rule run again
\* on the result produces zero diagnostics.
C7_NoRetrigger ==
    /\ (Len(input[2]) = 1 /\ orig = MakeSource(input[1], input[2])
            /\ phase # "parsed")
       => (phase = "linted" /\ reports = <<>> /\ src = orig)
    /\ phase = "relinted" => (Len(applied) = 1 /\ relint = <<>> /\ src # orig)

\* `{ x = x; }` has been linted
C7_Witness ==
    /\ orig = <<"{"," ","x"," ","="," ","x",";"," ","}">>
    /\ phase = "linted"
    /\ reports = <<>>

(***************************************************************************)
(* SpecRegistry: the lazy_static LINTS under concurrent first accesses     *)
(***************************************************************************)
Threads == 1..NThreads
\* the modules of the lints! invocation, in listing order; module i's LINT
LintModules == [i \in 1..NLints |-> i]

InitRegistry ==
    /\ ReportIdle /\ ApplyIdle /\ LintIdle
    /\ panicked = FALSE
    /\ once = "incomplete"
    /\ LINTS = None
    /\ building = [t \in Threads |-> <<>>]
    /\ nextLint = [t \in Threads |-> 1]
    /\ pc = [t \in Threads |-> "start"]
    /\ seen = [t \in Threads |-> None]
    /\ initRuns = 0

\* mutant: the cell tested and the initializer started without the Once
CallOnce_mut(t) ==
    /\ pc[t] = "start"
    /\ IF IsSome(LINTS)
       THEN pc' = [pc EXCEPT ![t] = "read"] /\ UNCHANGED <<once, initRuns>>
       ELSE /\ once' = "running"
            /\ initRuns' = initRuns + 1
            /\ pc' = [pc EXCEPT ![t] = "init"]
    /\ UNCHANGED <<building, nextLint, LINTS, seen, panicked,
                   reportVars, applyVars, lintVars>>

\* Deref of LINTS: Once::call_once on the cell. One atomic test-and-set:
\* complete -> read; incomplete -> this thread runs the initializer;
\* running -> this thread waits for the initializer to finish
CallOnce(t) ==
    /\ pc[t] = "start"
    /\ CASE once = "complete" ->
                pc' = [pc EXCEPT ![t] = "read"] /\ UNCHANGED <<once, initRuns>>
         [] once = "incomplete" ->
                /\ once' = "running"
                /\ initRuns' = initRuns + 1
                /\ pc' = [pc EXCEPT ![t] = "init"]
         [] OTHER ->
                pc' = [pc EXCEPT ![t] = "wait"] /\ UNCHANGED <<once, initRuns>>
    /\ UNCHANGED <<building, nextLint, LINTS, seen, panicked,
                   reportVars, applyVars, lintVars>>

\* let temp_lint = &*$s::LINT; v.push(temp_lint);
Push(t) ==
    /\ pc[t] = "init"
    /\ nextLint[t] <= NLints
    /\ building' = [building EXCEPT ![t] = Append(@, LintModules[nextLint[t]])]
    /\ nextLint' = [nextLint EXCEPT ![t] = @ + 1]
    /\ UNCHANGED <<once, LINTS, pc, seen, initRuns, panicked,
                   reportVars, applyVars, lintVars>>

\* the initializer returns v: the cell is set and the Once completes
Finish(t) ==
    /\ pc[t] = "init"
    /\ nextLint[t] > NLints
    /\ LINTS' = Some(building[t])
    /\ once' = "complete"
    /\ pc' = [pc EXCEPT ![t] = "read"]
    /\ UNCHANGED <<building, nextLint, seen, initRuns, panicked,
                   reportVars, applyVars, lintVars>>

\* a waiting thread is released once the Once is complete
Wake(t) ==
    /\ pc[t] = "wait"
    /\ once = "complete"
    /\ pc' = [pc EXCEPT ![t] = "read"]
    /\ UNCHANGED <<once, building, nextLint, LINTS, seen, initRuns, panicked,
                   reportVars, applyVars, lintVars>>

\* the reference to the list is handed to the reader
Read(t) ==
    /\ pc[t] = "read"
    /\ seen' = [seen EXCEPT ![t] = LINTS]
    /\ pc' = [pc EXCEPT ![t] = "done"]
    /\ UNCHANGED <<once, building, nextLint, LINTS, initRuns, panicked,
                   reportVars, applyVars, lintVars>>

\* the thread accesses LINTS again
Again(t) ==
    /\ pc[t] = "done"
    /\ pc' = [pc EXCEPT ![t] = "start"]
    /\ UNCHANGED <<once, building, nextLint, LINTS, seen, initRuns, panicked,
                   reportVars, applyVars, lintVars>>

NextRegistry ==
    \E t \in Threads :
        \/ CallOnce(t)
        \/ Push(t)
        \/ Finish(t)
        \/ Wake(t)
        \/ Read(t)
        \/ Again(t)

SpecRegistry == InitRegistry /\ [][NextRegistry]_vars

====
